---- MODULE Spec2Model ----
(***************************************************************************)
(* whisper_connector (src/src/main.rs): a command-line tool that lists the  *)
(* DirectShow audio devices ffmpeg reports, records from one of them until  *)
(* a key is pressed or Ctrl-C arrives, and uploads the recording to the     *)
(* transcription endpoint.                                                  *)
(*                                                                          *)
(* Strings the program searches or slices are sequences of one-character    *)
(* strings; positions are 0-based byte offsets as in Rust.                  *)
(***************************************************************************)
EXTENDS Integers, Sequences, FiniteSets, TLC

\* ------------------------------------------------------------------------
\* Bounds of the model
\* ------------------------------------------------------------------------

\* longest enumeration text, in lines, handed to the parser on its own
MaxLines == 3

\* longest enumeration text, in lines, the enumeration subprocess prints
MaxEnumLines == 3

\* capacity of an OS pipe, in log lines
PipeCap == 2

\* ------------------------------------------------------------------------
\* Text patterns of get_audio_devices
\* ------------------------------------------------------------------------

PatTag == <<"d","s","h","o","w"," ","@">>

PatAlias == <<"]"," "," ","A","l","t","e","r","n","a","t","i","v","e"," ","n","a","m","e"," ","\"">>

PatAudio == <<" ","(","a","u","d","i","o",")">>

PatStart == <<" ","\"">>

PatEnd == <<"\""," ">>

\* ------------------------------------------------------------------------
\* Diagnostic lines ffmpeg may print in "-list_devices true" mode
\* ------------------------------------------------------------------------

\* [dshow @ 0a] "Mic A" (audio)
LineMicA == <<"[","d","s","h","o","w"," ","@"," ","0","a","]"," ","\"","M","i","c"," ","A","\""," ","(","a","u","d","i","o",")">>

\* [dshow @ 0a] "Mic B" (audio)
LineMicB == <<"[","d","s","h","o","w"," ","@"," ","0","a","]"," ","\"","M","i","c"," ","B","\""," ","(","a","u","d","i","o",")">>

\* [dshow @ 0a]  Alternative name "@dev" (audio)
LineAlias == <<"[","d","s","h","o","w"," ","@"," ","0","a","]"," "," ","A","l","t","e","r","n","a","t","i","v","e"," ","n","a","m","e"," ","\"","@","d","e","v","\""," ","(","a","u","d","i","o",")">>

\* [dshow @ 0a] "Cam" (video)
LineVideo == <<"[","d","s","h","o","w"," ","@"," ","0","a","]"," ","\"","C","a","m","\""," ","(","v","i","d","e","o",")">>

\* [dshow @ 0a] Mic (audio)
LineNoQuote == <<"[","d","s","h","o","w"," ","@"," ","0","a","]"," ","M","i","c"," ","(","a","u","d","i","o",")">>

\* [dshow @ 0a]" "Mic (audio)       (a quote-space before the first space-quote)
LineReversed == <<"[","d","s","h","o","w"," ","@"," ","0","a","]","\""," ","\"","M","i","c"," ","(","a","u","d","i","o",")">>

\* [in#0 @ 0a] "Mic C" (audio)      (not a dshow line)
LineUntagged == <<"[","i","n","#","0"," ","@"," ","0","a","]"," ","\"","M","i","c"," ","C","\""," ","(","a","u","d","i","o",")">>

\* [dshow @ 0a] " Mic" (audio)      (a device whose name starts with a space)
LineLeadingSpace == <<"[","d","s","h","o","w"," ","@"," ","0","a","]"," ","\""," ","M","i","c","\""," ","(","a","u","d","i","o",")">>

NameMicA == <<"M","i","c"," ","A">>

NameMicB == <<"M","i","c"," ","B">>

NameOther == <<"M","i","c"," ","Z">>

LineTemplates ==
    { LineMicA, LineMicB, LineAlias, LineVideo, LineNoQuote, LineReversed,
      LineUntagged, LineLeadingSpace }

EolLF == <<"\n">>

EolCRLF == <<"\r", "\n">>

Eols == { EolLF, EolCRLF }

\* sequences of at most n elements of S
SeqUpTo(S, n) == UNION { [1..k -> S] : k \in 0..n }

RECURSIVE JoinLines(_, _)
\* the text the tool prints: every line followed by its line ending
JoinLines(ls, eol) ==
    IF ls = <<>> THEN <<>> ELSE Head(ls) \o eol \o JoinLines(Tail(ls), eol)

\* ------------------------------------------------------------------------
\* str::contains, str::find, str::lines, slicing
\* ------------------------------------------------------------------------

\* pat occurs in s at 0-based offset i
MatchAt(s, pat, i) ==
    /\ i + Len(pat) <= Len(s)
    /\ \A k \in 1..Len(pat) : s[i + k] = pat[k]

Offsets(s, pat) == { i \in 0..Len(s) : MatchAt(s, pat, i) }

StrContains(s, pat) == Offsets(s, pat) # {}

\* Option<usize>: -1 is None
StrFind(s, pat) ==
    IF Offsets(s, pat) = {} THEN -1
    ELSE CHOOSE i \in Offsets(s, pat) : \A j \in Offsets(s, pat) : i <= j

\* &s[a..b]
Slice(s, a, b) == [k \in 1..(b - a) |-> s[a + k]]

StripCR(l) ==
    IF Len(l) > 0 /\ l[Len(l)] = "\r" THEN SubSeq(l, 1, Len(l) - 1) ELSE l

\* the 1-based positions of the line feeds of s
LineFeeds(s) == { i \in 1..Len(s) : s[i] = "\n" }

\* the position of the k-th line feed of s
NthLineFeed(s, k) ==
    CHOOSE e \in LineFeeds(s) :
        Cardinality({ j \in LineFeeds(s) : j <= e }) = k

\* where the line that ends at position e begins
LineStart(s, e) ==
    IF { j \in LineFeeds(s) : j < e } = {} THEN 1
    ELSE 1 + CHOOSE m \in { j \in LineFeeds(s) : j < e } :
                 \A j \in LineFeeds(s) : j < e => j <= m

\* str::lines: split after every "\n"; a line that ended in "\n" loses it
\* and then a "\r" before it; a last line without "\n" is kept as it is
StrLines(s) ==
    LET n == Cardinality(LineFeeds(s))
        rest == LineStart(s, Len(s) + 1)
        terminated ==
            [k \in 1..n |->
                StripCR(SubSeq(s, LineStart(s, NthLineFeed(s, k)),
                               NthLineFeed(s, k) - 1))]
    IN IF rest <= Len(s) THEN Append(terminated, SubSeq(s, rest, Len(s)))
       ELSE terminated

\* ------------------------------------------------------------------------
\* get_audio_devices, lines 42-71: the parser
\* ------------------------------------------------------------------------

\* the filter of lines 47-50: TRUE when the loop continues past the line
SkippedByFilter(output_line) ==
    \/ ~StrContains(output_line, PatTag)
    \/ StrContains(output_line, PatAlias)
    \/ ~StrContains(output_line, PatAudio)

\* lines 52-57: a delimiter is missing
DelimiterMissing(output_line) ==
    \/ StrFind(output_line, PatStart) = -1
    \/ StrFind(output_line, PatEnd) = -1

\* line 59
StartIdx(output_line) == StrFind(output_line, PatStart) + 2

\* line 60
EndIdx(output_line) == StrFind(output_line, PatEnd)

\* line 62
Malformed(output_line) == StartIdx(output_line) > EndIdx(output_line)

\* line 66
DeviceName(output_line) ==
    Slice(output_line, StartIdx(output_line), EndIdx(output_line))

\* Ok(devices) and Err(message) of Result<Vec<String>, String>
DevicesOk(devices) == [ok |-> TRUE, devices |-> devices, err |-> <<>>]

DevicesErr(e) == [ok |-> FALSE, devices |-> <<>>, err |-> e]

RECURSIVE ParseLoop(_, _, _)
\* the for loop of lines 46-69 from the i-th line on, and the return of
\* line 71
ParseLoop(output_lines, i, devices) ==
    IF i > Len(output_lines) THEN DevicesOk(devices)
    ELSE IF SkippedByFilter(output_lines[i]) \/ DelimiterMissing(output_lines[i])
    THEN ParseLoop(output_lines, i + 1, devices)
    ELSE IF Malformed(output_lines[i])
    THEN DevicesErr(<<"malformed line", output_lines[i]>>)
    ELSE ParseLoop(output_lines, i + 1,
                   Append(devices, DeviceName(output_lines[i])))

\* lines 42-71 applied to the text read from the tool's stderr; line 42
\* binds the lines once
ParseDevices(output_str) ==
    CHOOSE result \in { ParseLoop(output_lines, 1, <<>>) :
                           output_lines \in {StrLines(output_str)} } : TRUE

\* ------------------------------------------------------------------------
\* send_request, lines 74-109: the response and its decoding
\* ------------------------------------------------------------------------

Field(name, type, str) == [name |-> name, type |-> type, str |-> str]

\* {"text":"hello world"}
BodyHello == [json |-> TRUE, obj |-> <<Field("text", "string", "hello world")>>]

\* {"text":" hi \n","task":"transcribe"}
BodyExtra ==
    [json |-> TRUE,
     obj |-> <<Field("text", "string", " hi \n"),
               Field("task", "string", "transcribe")>>]

\* {"unexpected":"x"}
BodyUnexpected == [json |-> TRUE, obj |-> <<Field("unexpected", "string", "x")>>]

\* {"text":5}
BodyNumber == [json |-> TRUE, obj |-> <<Field("text", "number", "5")>>]

\* <html>Bad gateway</html>
BodyHtml == [json |-> FALSE, obj |-> <<>>]

Bodies == { BodyHello, BodyExtra, BodyUnexpected, BodyNumber, BodyHtml }

Statuses == { 200, 401, 500 }

\* send() of lines 98-99 came back with an error: there is no response
NoResponse ==
    [arrived |-> FALSE, status |-> 0, readable |-> FALSE, body |-> BodyHtml]

\* what the network gives back to send(): no response at all, or a status
\* line and a body that can or cannot be read to its end
Responses ==
    [arrived : {TRUE}, status : Statuses, readable : BOOLEAN, body : Bodies]
    \cup { NoResponse }

\* Response::error_for_status, line 102: client and server errors
StatusIsError(status) == status >= 400 /\ status <= 599

HasTextField(body) ==
    /\ body.json
    /\ \E i \in 1..Len(body.obj) :
          body.obj[i].name = "text" /\ body.obj[i].type = "string"

TextField(body) ==
    LET i == CHOOSE i \in 1..Len(body.obj) :
                 body.obj[i].name = "text" /\ body.obj[i].type = "string"
    IN body.obj[i].str

Ok(v) == [ok |-> TRUE, val |-> v, err |-> "none"]

Err(e) == [ok |-> FALSE, val |-> "", err |-> e]

\* a panic unwinding out of the function instead of a returned value
Panic == [ok |-> FALSE, val |-> "", err |-> "panic"]

\* lines 95-108: the value send_request returns, or Panic where the expect
\* of line 100 unwinds
SendRequestOutcome(resp) ==
    IF ~resp.arrived THEN Panic
    ELSE IF StatusIsError(resp.status) THEN Err("http_status")
    ELSE IF ~resp.readable THEN Err("body_read")
    ELSE IF ~HasTextField(resp.body) THEN Err("json_parse")
    ELSE Ok(TextField(resp.body))

\* ------------------------------------------------------------------------
\* The program
\* ------------------------------------------------------------------------

VARIABLES
    pc,            \* where main is
    cmd_args,      \* gd_terminal_utils::get_cmd_args()
    env_key,       \* OPENAI_AUTH_KEY is set
    stdout,        \* lines printed on standard output
    stderr,        \* lines printed on standard error
    exit_code,     \* -1 while the process runs
    enum_proc,     \* the "-list_devices" ffmpeg: none, running, blocked, exited
    enum_todo,     \* lines it has still to print
    enum_pipe,     \* lines in its stderr pipe
    gad_result,    \* what get_audio_devices returned
    handler_set,   \* the ctrlc handler is installed
    cancelled,     \* cancellation_token
    byte_ready,    \* a byte (or end of file) is there for stdin.read_u8()
    tmp_file,      \* the audio sample file: stale, absent, written
    rec_proc,      \* the recording ffmpeg: none, running, blocked, exited, killed
    rec_pipe,      \* log lines in its unread stderr pipe
    rec_stdin,     \* cmd.stdin: none, piped, taken
    quit_bytes,    \* bytes written to the recording ffmpeg's stdin
    winner,        \* the branch of select! that ran: none, cancel, key
    session,       \* Idle, Recording, Stopping, Finalized, Cancelled, Failed
    events,        \* what execute_parse_command did, in order
    epc_result,    \* what execute_parse_command returned
    first_trigger, \* which came first, the byte or Ctrl-C: none, key, cancel
    cancel_pc,     \* where main was when Ctrl-C came, or none
    http_resp,     \* what the network gave back to the POST
    parse_in,      \* the parser on its own: its text
    parse_out      \* the parser on its own: its result

prog_vars ==
    <<pc, cmd_args, env_key, stdout, stderr, exit_code, enum_proc, enum_todo,
      enum_pipe, gad_result, handler_set, cancelled, byte_ready, tmp_file,
      rec_proc, rec_pipe, rec_stdin, quit_bytes, winner, session, events,
      epc_result, first_trigger, cancel_pc, http_resp>>

parse_vars == <<parse_in, parse_out>>

vars == <<prog_vars, parse_vars>>

None == [ok |-> FALSE, val |-> "", err |-> "not returned"]

NoDevices == DevicesErr(<<"not returned">>)

Line(kind, n, dev, text) == [kind |-> kind, n |-> n, dev |-> dev, text |-> text]

Msg(text) == Line("message", 0, <<>>, text)

\* the command lines tried
ArgLists ==
    { <<>>,
      <<"help">>,
      <<"devices">>,
      <<"transcribe", "en">>,
      <<"transcribe", "de", NameMicA>>,
      <<"transcribe", "en", NameMicA>>,
      <<"transcribe", "pl", NameMicB>>,
      <<"transcribe", "en", NameOther>> }

\* the lines the enumeration subprocess may print
EnumTemplates == { LineMicA, LineMicB, LineReversed }

EnumTexts == SeqUpTo(EnumTemplates, MaxEnumLines)

ProgInit ==
    /\ pc = "main"
    /\ cmd_args \in ArgLists
    /\ env_key \in BOOLEAN
    /\ stdout = <<>>
    /\ stderr = <<>>
    /\ exit_code = -1
    /\ enum_proc = "none"
    /\ enum_todo = <<>>
    /\ enum_pipe = <<>>
    /\ gad_result = NoDevices
    /\ handler_set = FALSE
    /\ cancelled = FALSE
    /\ byte_ready = FALSE
    /\ tmp_file \in {"stale", "absent"}
    /\ rec_proc = "none"
    /\ rec_pipe = 0
    /\ rec_stdin = "none"
    /\ quit_bytes = 0
    /\ winner = "none"
    /\ session = "Idle"
    /\ events = <<>>
    /\ epc_result = None
    /\ first_trigger = "none"
    /\ cancel_pc = "none"
    /\ http_resp = NoResponse

Init ==
    /\ ProgInit
    /\ parse_in = <<>>
    /\ parse_out = NoDevices

\* exit(code)
Exit(code) ==
    /\ pc' = "exit"
    /\ exit_code' = code

\* ---- main, lines 213-257 ------------------------------------------------

\* lines 214-257: argument count, dispatch, and for "transcribe" the checks
\* made before get_audio_devices is called
Main ==
    /\ pc = "main"
    /\ IF Len(cmd_args) < 1
       THEN /\ stderr' = Append(stderr, Msg("Expected at least 1 argument"))
            /\ Exit(1)
            /\ UNCHANGED stdout
       ELSE IF cmd_args[1] = "devices"
       THEN /\ pc' = "gad_spawn"
            /\ UNCHANGED <<stdout, stderr, exit_code>>
       ELSE IF cmd_args[1] = "transcribe"
       THEN IF ~env_key
            THEN /\ stdout' = Append(stdout, Msg("Required OPENAI_AUTH_KEY environment variable has not been set."))
                 /\ Exit(1)
                 /\ UNCHANGED stderr
            ELSE IF Len(cmd_args) # 3
            THEN /\ stderr' = Append(stderr, Msg("Expected 3 arguments"))
                 /\ Exit(1)
                 /\ UNCHANGED stdout
            ELSE IF cmd_args[2] # "en" /\ cmd_args[2] # "pl"
            THEN /\ stderr' = Append(stderr, Msg("Unknown language"))
                 /\ Exit(1)
                 /\ UNCHANGED stdout
            ELSE /\ pc' = "gad_spawn"
                 /\ UNCHANGED <<stdout, stderr, exit_code>>
       ELSE /\ stdout' = stdout \o <<Msg("Usage:"), Msg("transcribe"), Msg("devices")>>
            /\ Exit(0)
            /\ UNCHANGED stderr
    /\ UNCHANGED <<cmd_args, env_key, enum_proc, enum_todo, enum_pipe,
                   gad_result, handler_set, cancelled, byte_ready, tmp_file,
                   rec_proc, rec_pipe, rec_stdin, quit_bytes, winner, session,
                   events, epc_result, first_trigger, cancel_pc, http_resp,
                   parse_vars>>

\* ---- get_audio_devices, lines 15-72 -------------------------------------

\* lines 16-24: spawn ffmpeg with its stderr piped
GadSpawn ==
    /\ pc = "gad_spawn"
    /\ \/ /\ \E text \in EnumTexts : enum_todo' = text
          /\ enum_proc' = "running"
          /\ pc' = "gad_wait"
          /\ UNCHANGED gad_result
       \/ /\ gad_result' = DevicesErr(<<"spawn">>)
          /\ pc' = "main_devices"
          /\ UNCHANGED <<enum_proc, enum_todo>>
    /\ UNCHANGED <<cmd_args, env_key, stdout, stderr, exit_code, enum_pipe,
                   handler_set, cancelled, byte_ready, tmp_file, rec_proc,
                   rec_pipe, rec_stdin, quit_bytes, winner, session, events,
                   epc_result, first_trigger, cancel_pc, http_resp,
                   parse_vars>>

\* the enumeration ffmpeg writes its next line to stderr, or blocks in the
\* write when the pipe (line 18) is full
EnumToolPrint ==
    /\ enum_proc = "running"
    /\ enum_todo # <<>>
    /\ IF Len(enum_pipe) < PipeCap
       THEN /\ enum_pipe' = Append(enum_pipe, Head(enum_todo))
            /\ enum_todo' = Tail(enum_todo)
            /\ UNCHANGED enum_proc
       ELSE /\ enum_proc' = "blocked"
            /\ UNCHANGED <<enum_pipe, enum_todo>>
    /\ UNCHANGED <<pc, cmd_args, env_key, stdout, stderr, exit_code,
                   gad_result, handler_set, cancelled, byte_ready, tmp_file,
                   rec_proc, rec_pipe, rec_stdin, quit_bytes, winner, session,
                   events, epc_result, first_trigger, cancel_pc, http_resp,
                   parse_vars>>

\* the enumeration ffmpeg exits once it has printed everything
EnumToolExit ==
    /\ enum_proc = "running"
    /\ enum_todo = <<>>
    /\ enum_proc' = "exited"
    /\ UNCHANGED <<pc, cmd_args, env_key, stdout, stderr, exit_code,
                   enum_todo, enum_pipe, gad_result, handler_set, cancelled,
                   byte_ready, tmp_file, rec_proc, rec_pipe, rec_stdin,
                   quit_bytes, winner, session, events, epc_result, first_trigger, cancel_pc, http_resp,
                   parse_vars>>

\* lines 26-29: wait() returns when the child has exited
GadWait ==
    /\ pc = "gad_wait"
    /\ enum_proc = "exited"
    /\ \/ /\ pc' = "gad_read"
          /\ UNCHANGED gad_result
       \/ /\ gad_result' = DevicesErr(<<"wait">>)
          /\ pc' = "main_devices"
    /\ UNCHANGED <<cmd_args, env_key, stdout, stderr, exit_code, enum_proc,
                   enum_todo, enum_pipe, handler_set, cancelled, byte_ready,
                   tmp_file, rec_proc, rec_pipe, rec_stdin, quit_bytes, winner,
                   session, events, epc_result, first_trigger, cancel_pc, http_resp,
                   parse_vars>>

\* lines 31-71: read the pipe to its end as text (line 36 binds it) and
\* parse it
GadRead ==
    /\ pc = "gad_read"
    /\ \E output_str \in {JoinLines(enum_pipe, EolLF)} :
           \/ gad_result' = ParseDevices(output_str)
           \/ gad_result' = DevicesErr(<<"read">>)
    /\ enum_pipe' = <<>>
    /\ pc' = "main_devices"
    /\ UNCHANGED <<cmd_args, env_key, stdout, stderr, exit_code, enum_proc,
                   enum_todo, handler_set, cancelled, byte_ready, tmp_file,
                   rec_proc, rec_pipe, rec_stdin, quit_bytes, winner, session,
                   events, epc_result, first_trigger, cancel_pc, http_resp,
                   parse_vars>>

RECURSIVE Numbered(_, _)
\* lines 231-236
Numbered(devices, i) ==
    IF devices = <<>> THEN <<>>
    ELSE <<Line("device", i, Head(devices), "")>> \o Numbered(Tail(devices), i + 1)

Contains(devices, d) == \E i \in 1..Len(devices) : devices[i] = d

\* MainDevices without the test of lines 267-272 for the device name
MainDevicesUnchecked ==
    /\ pc = "main_devices"
    /\ IF ~gad_result.ok
       THEN /\ stderr' = Append(stderr, Msg("enumeration failed"))
            /\ Exit(1)
            /\ UNCHANGED stdout
       ELSE IF cmd_args[1] = "devices"
       THEN /\ stdout' = stdout \o Numbered(gad_result.devices, 1)
            /\ Exit(0)
            /\ UNCHANGED stderr
       ELSE /\ pc' = "epc_start"
            /\ UNCHANGED <<stdout, stderr, exit_code>>
    /\ UNCHANGED <<cmd_args, env_key, enum_proc, enum_todo, enum_pipe,
                   gad_result, handler_set, cancelled, byte_ready, tmp_file,
                   rec_proc, rec_pipe, rec_stdin, quit_bytes, winner, session,
                   events, epc_result, first_trigger, cancel_pc, http_resp,
                   parse_vars>>

\* lines 223-236 ("devices") and 259-272 ("transcribe"): use of the list
MainDevices ==
    /\ pc = "main_devices"
    /\ IF ~gad_result.ok
       THEN /\ stderr' = Append(stderr, Msg("enumeration failed"))
            /\ Exit(1)
            /\ UNCHANGED stdout
       ELSE IF cmd_args[1] = "devices"
       THEN /\ stdout' = stdout \o Numbered(gad_result.devices, 1)
            /\ Exit(0)
            /\ UNCHANGED stderr
       ELSE IF ~Contains(gad_result.devices, cmd_args[3])
       THEN /\ stderr' = Append(stderr, Msg("This audio device does not exist."))
            /\ Exit(1)
            /\ UNCHANGED stdout
       ELSE /\ pc' = "epc_start"
            /\ UNCHANGED <<stdout, stderr, exit_code>>
    /\ UNCHANGED <<cmd_args, env_key, enum_proc, enum_todo, enum_pipe,
                   gad_result, handler_set, cancelled, byte_ready, tmp_file,
                   rec_proc, rec_pipe, rec_stdin, quit_bytes, winner, session,
                   events, epc_result, first_trigger, cancel_pc, http_resp,
                   parse_vars>>

\* ---- execute_parse_command, lines 133-210 -------------------------------

\* return from execute_parse_command
Return(result, state) ==
    /\ epc_result' = result
    /\ session' = state
    /\ pc' = "epc_ret"

\* lines 134-146: token, ctrlc handler, file path, removal of a stale file
EpcStart ==
    /\ pc = "epc_start"
    /\ handler_set' = TRUE
    /\ \/ /\ tmp_file' = "absent"
          /\ events' = Append(events, "remove_file")
          /\ pc' = "epc_spawn"
          /\ UNCHANGED <<stdout, exit_code>>
       \/ /\ stdout' = Append(stdout, Msg("Error occured: Could not get temporary audio sample file path."))
          /\ Exit(1)
          /\ UNCHANGED <<tmp_file, events>>
    /\ UNCHANGED <<cmd_args, env_key, stderr, enum_proc, enum_todo, enum_pipe,
                   gad_result, cancelled, byte_ready, rec_proc, rec_pipe,
                   rec_stdin, quit_bytes, winner, session, epc_result,
                   first_trigger, cancel_pc, http_resp,
                   parse_vars>>

\* lines 148-167: spawn ffmpeg with stdin, stdout and stderr piped
EpcSpawn ==
    /\ pc = "epc_spawn"
    /\ \/ /\ rec_proc' = "running"
          /\ rec_stdin' = "piped"
          /\ tmp_file' = "written"
          /\ events' = Append(events, "spawn")
          /\ session' = "Recording"
          /\ pc' = "select"
          /\ UNCHANGED <<cancelled, epc_result>>
       \/ /\ cancelled' = TRUE
          /\ Return(Err("spawn"), "Failed")
          /\ UNCHANGED <<rec_proc, rec_stdin, tmp_file, events>>
    /\ UNCHANGED <<cmd_args, env_key, stdout, stderr, exit_code, enum_proc,
                   enum_todo, enum_pipe, gad_result, handler_set, byte_ready,
                   rec_pipe, quit_bytes, winner, first_trigger, cancel_pc, http_resp,
                   parse_vars>>

\* the branches of select! that are ready when it is polled (no "biased;":
\* one ready branch is taken, whichever it is)
ReadyBranches ==
    (IF cancelled THEN {"cancel"} ELSE {}) \cup (IF byte_ready THEN {"key"} ELSE {})

\* lines 171-180: the race between cancellation and a byte on stdin
EpcSelect ==
    /\ pc = "select"
    /\ \E b \in ReadyBranches :
          /\ winner' = b
          /\ IF b = "cancel"
             THEN pc' = "kill" /\ UNCHANGED <<byte_ready, session>>
             ELSE pc' = "write" /\ byte_ready' = FALSE /\ session' = "Stopping"
    /\ UNCHANGED <<cmd_args, env_key, stdout, stderr, exit_code, enum_proc,
                   enum_todo, enum_pipe, gad_result, handler_set, cancelled,
                   tmp_file, rec_proc, rec_pipe, rec_stdin, quit_bytes, events,
                   epc_result, first_trigger, cancel_pc, http_resp,
                   parse_vars>>

\* EpcKill without the return of line 176: the killed child is then sent
\* the quit byte
EpcKillFallsThrough ==
    /\ pc = "kill"
    /\ \/ /\ rec_proc' = "killed"
          /\ events' = Append(events, "kill")
          /\ pc' = "write"
          /\ UNCHANGED <<epc_result, session>>
       \/ /\ events' = Append(events, "kill_failed")
          /\ Return(Err("kill"), "Failed")
          /\ UNCHANGED rec_proc
    /\ UNCHANGED <<cmd_args, env_key, stdout, stderr, exit_code, enum_proc,
                   enum_todo, enum_pipe, gad_result, handler_set, cancelled,
                   byte_ready, tmp_file, rec_pipe, rec_stdin, quit_bytes,
                   winner, first_trigger, cancel_pc, http_resp,
                   parse_vars>>

\* lines 173-177: kill the child and return an empty string
EpcKill ==
    /\ pc = "kill"
    /\ \/ /\ rec_proc' = "killed"
          /\ events' = Append(events, "kill")
          /\ Return(Ok(""), "Cancelled")
       \/ /\ events' = Append(events, "kill_failed")
          /\ Return(Err("kill"), "Failed")
          /\ UNCHANGED rec_proc
    /\ UNCHANGED <<cmd_args, env_key, stdout, stderr, exit_code, enum_proc,
                   enum_todo, enum_pipe, gad_result, handler_set, cancelled,
                   byte_ready, tmp_file, rec_pipe, rec_stdin, quit_bytes,
                   winner, first_trigger, cancel_pc, http_resp,
                   parse_vars>>

\* EpcWrite with the result of the write of line 187 dropped: a failed
\* write goes on to the flush
EpcWriteUnchecked ==
    /\ pc = "write"
    /\ IF rec_stdin # "piped"
       THEN /\ Return(Err("stdin"), "Failed")
            /\ UNCHANGED <<rec_stdin, quit_bytes, events>>
       ELSE /\ rec_stdin' = "taken"
            /\ \/ /\ quit_bytes' = quit_bytes + 1
                  /\ events' = Append(events, "write_q")
               \/ /\ events' = Append(events, "write_failed")
                  /\ UNCHANGED quit_bytes
            /\ pc' = "flush"
            /\ UNCHANGED <<epc_result, session>>
    /\ UNCHANGED <<cmd_args, env_key, stdout, stderr, exit_code, enum_proc,
                   enum_todo, enum_pipe, gad_result, handler_set, cancelled,
                   byte_ready, tmp_file, rec_proc, rec_pipe, winner,
                   first_trigger, cancel_pc, http_resp,
                   parse_vars>>

\* lines 182-189: take the child's stdin and write b"q" to it
EpcWrite ==
    /\ pc = "write"
    /\ IF rec_stdin # "piped"
       THEN /\ Return(Err("stdin"), "Failed")
            /\ UNCHANGED <<rec_stdin, quit_bytes, events>>
       ELSE /\ rec_stdin' = "taken"
            /\ \/ /\ quit_bytes' = quit_bytes + 1
                  /\ events' = Append(events, "write_q")
                  /\ pc' = "flush"
                  /\ UNCHANGED <<epc_result, session>>
               \/ /\ events' = Append(events, "write_failed")
                  /\ Return(Err("write"), "Failed")
                  /\ UNCHANGED quit_bytes
    /\ UNCHANGED <<cmd_args, env_key, stdout, stderr, exit_code, enum_proc,
                   enum_todo, enum_pipe, gad_result, handler_set, cancelled,
                   byte_ready, tmp_file, rec_proc, rec_pipe, winner,
                   first_trigger, cancel_pc, http_resp,
                   parse_vars>>

\* EpcFlush that looks at the token first and goes to the kill of line 173
\* when it is cancelled
EpcFlushObservesCancel ==
    /\ pc = "flush"
    /\ IF cancelled
       THEN /\ pc' = "kill"
            /\ UNCHANGED <<events, epc_result, session>>
       ELSE \/ /\ events' = Append(events, "flush")
               /\ pc' = "wait"
               /\ UNCHANGED <<epc_result, session>>
            \/ /\ events' = Append(events, "flush_failed")
               /\ Return(Err("flush"), "Failed")
    /\ UNCHANGED <<cmd_args, env_key, stdout, stderr, exit_code, enum_proc,
                   enum_todo, enum_pipe, gad_result, handler_set, cancelled,
                   byte_ready, tmp_file, rec_proc, rec_pipe, rec_stdin,
                   quit_bytes, winner, first_trigger, cancel_pc, http_resp,
                   parse_vars>>

\* lines 191-193
EpcFlush ==
    /\ pc = "flush"
    /\ \/ /\ events' = Append(events, "flush")
          /\ pc' = "wait"
          /\ UNCHANGED <<epc_result, session>>
       \/ /\ events' = Append(events, "flush_failed")
          /\ Return(Err("flush"), "Failed")
    /\ UNCHANGED <<cmd_args, env_key, stdout, stderr, exit_code, enum_proc,
                   enum_todo, enum_pipe, gad_result, handler_set, cancelled,
                   byte_ready, tmp_file, rec_proc, rec_pipe, rec_stdin,
                   quit_bytes, winner, first_trigger, cancel_pc, http_resp,
                   parse_vars>>

\* lines 195-197: wait() returns when the child has exited
EpcWait ==
    /\ pc = "wait"
    /\ rec_proc = "exited"
    /\ \/ /\ events' = Append(events, "wait")
          /\ session' = "Finalized"
          /\ pc' = "open"
          /\ UNCHANGED epc_result
       \/ /\ events' = Append(events, "wait_failed")
          /\ Return(Err("wait"), "Failed")
    /\ UNCHANGED <<cmd_args, env_key, stdout, stderr, exit_code, enum_proc,
                   enum_todo, enum_pipe, gad_result, handler_set, cancelled,
                   byte_ready, tmp_file, rec_proc, rec_pipe, rec_stdin,
                   quit_bytes, winner, first_trigger, cancel_pc, http_resp,
                   parse_vars>>

\* lines 199-202: open the recorded file
EpcOpen ==
    /\ pc = "open"
    /\ \/ /\ events' = Append(events, "open")
          /\ pc' = "send"
          /\ UNCHANGED <<epc_result, session>>
       \/ /\ events' = Append(events, "open_failed")
          /\ Return(Err("open"), session)
    /\ UNCHANGED <<cmd_args, env_key, stdout, stderr, exit_code, enum_proc,
                   enum_todo, enum_pipe, gad_result, handler_set, cancelled,
                   byte_ready, tmp_file, rec_proc, rec_pipe, rec_stdin,
                   quit_bytes, winner, first_trigger, cancel_pc, http_resp,
                   parse_vars>>

\* lines 204-209 and send_request, lines 74-109: one POST, and its outcome
EpcSend ==
    /\ pc = "send"
    /\ \E resp \in Responses :
          /\ events' = Append(events, "upload")
          /\ http_resp' = resp
          /\ IF SendRequestOutcome(resp) = Panic
             THEN /\ stderr' = Append(stderr, Msg("Should return response from server"))
                  /\ Exit(101)
                  /\ UNCHANGED <<epc_result, session>>
             ELSE /\ Return(SendRequestOutcome(resp), session)
                  /\ UNCHANGED <<stderr, exit_code>>
    /\ UNCHANGED <<cmd_args, env_key, stdout, enum_proc, enum_todo, enum_pipe,
                   gad_result, handler_set, cancelled, byte_ready, tmp_file,
                   rec_proc, rec_pipe, rec_stdin, quit_bytes, winner,
                   first_trigger, cancel_pc, parse_vars>>

\* lines 274-277 and the end of main: print the result and return
MainFinish ==
    /\ pc = "epc_ret"
    /\ IF epc_result.ok
       THEN stdout' = Append(stdout, Line("result", 0, <<>>, epc_result.val))
            /\ UNCHANGED stderr
       ELSE stderr' = Append(stderr, Msg(epc_result.err))
            /\ UNCHANGED stdout
    /\ Exit(0)
    /\ UNCHANGED <<cmd_args, env_key, enum_proc, enum_todo, enum_pipe,
                   gad_result, handler_set, cancelled, byte_ready, tmp_file,
                   rec_proc, rec_pipe, rec_stdin, quit_bytes, winner, session,
                   events, epc_result, first_trigger, cancel_pc, http_resp,
                   parse_vars>>

\* ---- the recording ffmpeg and the user ----------------------------------

\* the recording ffmpeg logs a line to its stderr, which nobody reads
\* (line 158), or blocks in the write when the pipe is full
RecToolLog ==
    /\ rec_proc = "running"
    /\ IF rec_pipe < PipeCap
       THEN rec_pipe' = rec_pipe + 1 /\ UNCHANGED rec_proc
       ELSE rec_proc' = "blocked" /\ UNCHANGED rec_pipe
    /\ UNCHANGED <<pc, cmd_args, env_key, stdout, stderr, exit_code, enum_proc,
                   enum_todo, enum_pipe, gad_result, handler_set, cancelled,
                   byte_ready, tmp_file, rec_stdin, quit_bytes, winner,
                   session, events, epc_result, first_trigger, cancel_pc, http_resp,
                   parse_vars>>

\* the recording ffmpeg reads the quit byte, finishes the file and exits
RecToolQuit ==
    /\ rec_proc = "running"
    /\ quit_bytes > 0
    /\ rec_proc' = "exited"
    /\ UNCHANGED <<pc, cmd_args, env_key, stdout, stderr, exit_code, enum_proc,
                   enum_todo, enum_pipe, gad_result, handler_set, cancelled,
                   byte_ready, tmp_file, rec_pipe, rec_stdin, quit_bytes,
                   winner, session, events, epc_result, first_trigger, cancel_pc, http_resp,
                   parse_vars>>

\* a byte arrives on the program's standard input
KeyPress ==
    /\ pc # "exit"
    /\ ~byte_ready
    /\ byte_ready' = TRUE
    /\ first_trigger' = IF first_trigger = "none" THEN "key" ELSE first_trigger
    /\ UNCHANGED <<cancel_pc, pc, cmd_args, env_key, stdout, stderr, exit_code, enum_proc,
                   enum_todo, enum_pipe, gad_result, handler_set, cancelled,
                   tmp_file, rec_proc, rec_pipe, rec_stdin, quit_bytes, winner,
                   session, events, epc_result, http_resp, parse_vars>>

\* lines 135-136: Ctrl-C runs the handler, which cancels the token
CtrlC ==
    /\ handler_set
    /\ pc # "exit"
    /\ ~cancelled
    /\ cancelled' = TRUE
    /\ first_trigger' = IF first_trigger = "none" THEN "cancel" ELSE first_trigger
    /\ cancel_pc' = pc
    /\ UNCHANGED <<pc, cmd_args, env_key, stdout, stderr, exit_code, enum_proc,
                   enum_todo, enum_pipe, gad_result, handler_set, byte_ready,
                   tmp_file, rec_proc, rec_pipe, rec_stdin, quit_bytes, winner,
                   session, events, epc_result, http_resp, parse_vars>>

ProgramStep ==
    \/ Main
    \/ GadSpawn
    \/ GadWait
    \/ GadRead
    \/ MainDevices
    \/ EpcStart
    \/ EpcSpawn
    \/ EpcSelect
    \/ EpcKill
    \/ EpcWrite
    \/ EpcFlush
    \/ EpcWait
    \/ EpcOpen
    \/ EpcSend
    \/ MainFinish

ToolStep ==
    \/ EnumToolPrint
    \/ EnumToolExit
    \/ RecToolLog
    \/ RecToolQuit

Next ==
    \/ ProgramStep
    \/ ToolStep
    \/ KeyPress
    \/ CtrlC

Spec == Init /\ [][Next]_vars

\* the runtime keeps polling main's future, and a running ffmpeg that is not
\* blocked in a write prints, reads its stdin and exits
FairSpec ==
    /\ Spec
    /\ WF_vars(ProgramStep)
    /\ WF_vars(EnumToolPrint)
    /\ WF_vars(EnumToolExit)
    /\ WF_vars(RecToolQuit)

\* ---- the parser on its own ----------------------------------------------

ParseTexts ==
    { JoinLines(ls, eol) : ls \in SeqUpTo(LineTemplates, MaxLines), eol \in Eols }

ParseInit ==
    /\ ProgInit
    /\ cmd_args = <<"devices">>
    /\ env_key
    /\ tmp_file = "absent"
    /\ parse_in \in ParseTexts
    /\ parse_out = NoDevices

\* get_audio_devices, lines 42-71, on the text read from stderr
ParseCall ==
    /\ parse_out = NoDevices
    /\ parse_out' = ParseDevices(parse_in)
    /\ UNCHANGED <<prog_vars, parse_in>>

ParseNext == ParseCall

SpecParse == ParseInit /\ [][ParseNext]_vars

\* ------------------------------------------------------------------------
\* Properties
\* ------------------------------------------------------------------------

\* ---- shared vocabulary ---------------------------------------------------

Has(e) == \E i \in 1..Len(events) : events[i] = e

Count(e) == Cardinality({ i \in 1..Len(events) : events[i] = e })

\* execute_parse_command has returned (or unwound) after a successful spawn
SessionEnded == pc \in {"epc_ret", "exit"} /\ Has("spawn")

\* what the session did after the spawn
KeyTail == SubSeq(events, 3, Len(events))

FullKeyPath == <<"write_q", "flush", "wait", "open", "upload">>

\* the ways the key-press path can have ended
EndedKeyPaths ==
    { FullKeyPath,
      <<"write_failed">>,
      <<"write_q", "flush_failed">>,
      <<"write_q", "flush", "wait_failed">>,
      <<"write_q", "flush", "wait", "open_failed">> }

\* and the ways it can be under way
RunningKeyPaths == { SubSeq(FullKeyPath, 1, n) : n \in 0..4 }

IsTranscribe == Len(cmd_args) >= 1 /\ cmd_args[1] = "transcribe"

\* ---- C1 -----------------------------------------------------------------

\* C1 as stated: once a byte has arrived on standard input before any
\* cancellation, the session that ends has written exactly one quit byte,
\* then flushed, then waited, has not killed the subprocess, and is Finalized.
C1_Original ==
    (first_trigger = "key" /\ SessionEnded) =>
        /\ quit_bytes = 1
        /\ Len(events) >= 5
        /\ SubSeq(events, 3, 5) = <<"write_q", "flush", "wait">>
        /\ ~Has("kill")
        /\ ~Has("kill_failed")
        /\ session = "Finalized"

KeyPathOk ==
    /\ ~Has("kill")
    /\ ~Has("kill_failed")
    /\ rec_proc # "killed"
    /\ quit_bytes <= 1
    /\ quit_bytes = Count("write_q")
    /\ IF pc \in {"epc_ret", "exit"}
       THEN KeyTail \in EndedKeyPaths
       ELSE KeyTail \in RunningKeyPaths
    /\ (session = "Finalized") <=> Has("wait")
    /\ Has("wait") => rec_proc = "exited"
    /\ (pc \in {"epc_ret", "exit"} /\ ~Has("wait")) => session = "Failed"

\* C1, amended: when the key-press branch wins the select - which it does
\* whenever the select completes with a byte ready and the token not
\* cancelled, while a byte that arrived first can still lose to a Ctrl-C
\* that comes before the select is polled - the session never kills the
\* subprocess, writes at most one quit byte, and does write, flush, wait,
\* open, upload in that order, each only after the one before succeeded; it
\* is Finalized exactly when the wait has returned successfully, and ends
\* Failed when the write, the flush or the wait fails.
C1_KeyPath ==
    /\ [](winner = "key" => KeyPathOk)
    /\ [][(pc = "select" /\ pc' # "select" /\ byte_ready /\ ~cancelled)
            => winner' = "key"]_vars

\* a byte came first, the key branch ran, and the session went all the way
C1_Witness ==
    /\ first_trigger = "key"
    /\ winner = "key"
    /\ pc = "exit"
    /\ session = "Finalized"
    /\ KeyTail = FullKeyPath
    /\ quit_bytes = 1
    /\ epc_result.ok

\* ---- C2 -----------------------------------------------------------------

KillAttempted == Has("kill") \/ Has("kill_failed")

WriteAttempted == Has("write_q") \/ Has("write_failed")

\* C2 as stated: once cancellation has fired before any byte arrived, the
\* session that ends is Cancelled, the subprocess was killed, no quit byte
\* was written, nothing was uploaded and the call returned Ok(""); and every
\* session that got past the select issued exactly one of kill and quit
\* byte to the subprocess.
C2_Original ==
    /\ (first_trigger = "cancel" /\ SessionEnded) =>
          /\ session = "Cancelled"
          /\ Has("kill")
          /\ quit_bytes = 0
          /\ ~Has("upload")
          /\ epc_result = Ok("")
    /\ (SessionEnded /\ winner # "none") => (KillAttempted # WriteAttempted)

CancelPathOk ==
    /\ quit_bytes = 0
    /\ ~WriteAttempted
    /\ ~Has("open")
    /\ ~Has("upload")
    /\ pc \in {"epc_ret", "exit"} =>
          \/ /\ Has("kill")
             /\ rec_proc = "killed"
             /\ epc_result = Ok("")
             /\ session = "Cancelled"
          \/ /\ Has("kill_failed")
             /\ ~Has("kill")
             /\ epc_result = Err("kill")
             /\ session = "Failed"

\* C2, amended: when the cancellation branch wins the select - which it does
\* whenever the select completes with the token cancelled and no byte ready,
\* while a cancellation that fired first can still lose to a byte that
\* arrives before the select is polled - the kill is issued, no quit byte is
\* ever written, nothing is opened or uploaded, and the call returns Ok("")
\* as Cancelled if the kill succeeds and an error as Failed if it fails. In
\* every interleaving kill and quit byte are never both applied, and a
\* session that got past the select and ended attempted exactly one of them.
C2_CancelPath ==
    /\ [](winner = "cancel" => CancelPathOk)
    /\ [](~(Has("kill") /\ quit_bytes > 0))
    /\ []((SessionEnded /\ winner # "none") => (KillAttempted # WriteAttempted))
    /\ [][(pc = "select" /\ pc' # "select" /\ cancelled /\ ~byte_ready)
            => winner' = "cancel"]_vars

\* Ctrl-C came first, the cancel branch ran, the kill worked
C2_Witness ==
    /\ first_trigger = "cancel"
    /\ winner = "cancel"
    /\ pc = "exit"
    /\ session = "Cancelled"
    /\ Has("kill")
    /\ epc_result = Ok("")

\* ---- C3 -----------------------------------------------------------------

\* C3 as stated: whenever a session that spawned its subprocess has ended,
\* the subprocess has been killed or waited for and is not running.
C3_Original ==
    SessionEnded =>
        /\ Has("kill") \/ Has("wait")
        /\ rec_proc \in {"killed", "exited"}

\* ---- C4 -----------------------------------------------------------------

ErrorHappened ==
    \/ exit_code \in {1, 101}
    \/ epc_result # None /\ ~epc_result.ok

TranscriptPrinted ==
    /\ Has("upload")
    /\ epc_result.ok
    /\ Len(stdout) > 0

\* C4 as stated: a transcribe invocation that met an error ends with a
\* message and a non-zero exit status, and one that ends with status zero
\* and no transcript was cancelled.
C4_Original ==
    (pc = "exit" /\ IsTranscribe) =>
        /\ ErrorHappened => (exit_code # 0 /\ (stderr # <<>> \/ stdout # <<>>))
        /\ (exit_code = 0 /\ ~TranscriptPrinted) => winner = "cancel"

\* ---- C5 -----------------------------------------------------------------

AfterSelect == {"write", "flush", "wait", "open", "send", "epc_ret"}

LateCancelOk ==
    /\ ~KillAttempted
    /\ rec_proc # "killed"
    /\ pc # "kill"
    /\ session # "Cancelled"
    /\ (pc \in AfterSelect \ {"wait"}) => ENABLED ProgramStep
    /\ (pc = "wait" /\ rec_proc = "exited") => ENABLED EpcWait
    /\ (pc \in {"epc_ret", "exit"} /\ KeyTail = FullKeyPath) =>
          session = "Finalized"
    /\ (pc \in {"epc_ret", "exit"}) => KeyTail \in EndedKeyPaths

\* C5: once the key-press branch has won the select, a Ctrl-C at any later
\* point only sets the token: it changes nothing else, the subprocess is
\* never killed, no later step is held back, and the session still goes
\* through write, flush, wait, open and upload to Finalized.
C5_LateCancel ==
    /\ []((winner = "key" /\ cancelled) => LateCancelOk)
    /\ [][(winner = "key" /\ cancelled' # cancelled) =>
            UNCHANGED <<pc, cmd_args, env_key, stdout, stderr, exit_code,
                        enum_proc, enum_todo, enum_pipe, gad_result,
                        handler_set, byte_ready, tmp_file, rec_proc, rec_pipe,
                        rec_stdin, quit_bytes, winner, session, events,
                        epc_result, http_resp>>]_vars

\* Ctrl-C came while the session was stopping, and the upload still happened
C5_Witness ==
    /\ winner = "key"
    /\ cancelled
    /\ cancel_pc \in {"write", "flush", "wait"}
    /\ pc = "exit"
    /\ session = "Finalized"
    /\ KeyTail = FullKeyPath
    /\ epc_result.ok
    /\ exit_code = 0

\* ---- C6 -----------------------------------------------------------------

ArgsValid ==
    /\ env_key
    /\ Len(cmd_args) = 3
    /\ cmd_args[2] \in {"en", "pl"}

DeviceValid ==
    /\ gad_result.ok
    /\ Contains(gad_result.devices, cmd_args[3])

EnumerationRun == enum_proc # "none" \/ gad_result # NoDevices

RecordingTouched ==
    \/ events # <<>>
    \/ rec_proc # "none"
    \/ tmp_file = "written"
    \/ handler_set

\* C6: in "transcribe", the temp file is removed and the recording
\* subprocess spawned only after the key, the argument count, the language,
\* the enumeration and the device name have all passed; an invocation that
\* fails one of them exits non-zero with none of that done; and without the
\* key, or with bad arguments, the enumeration is never run.
C6_ValidationFirst ==
    IsTranscribe =>
        /\ RecordingTouched => (ArgsValid /\ DeviceValid)
        /\ EnumerationRun => ArgsValid
        /\ (pc = "exit" /\ ~(ArgsValid /\ DeviceValid)) =>
              (exit_code = 1 /\ ~RecordingTouched)

\* the named device is not in the list that was enumerated
C6_Witness ==
    /\ pc = "exit"
    /\ cmd_args = <<"transcribe", "en", NameOther>>
    /\ env_key
    /\ gad_result.ok
    /\ Len(gad_result.devices) = 2
    /\ exit_code = 1
    /\ events = <<>>

\* ---- C7 -----------------------------------------------------------------

\* C7 as stated: a cancelled invocation has written nothing on standard
\* output or standard error and exits cleanly; and a transcribe invocation
\* has either fully succeeded and printed exactly one line, the transcript,
\* or printed no line on standard output.
C7_Original ==
    (pc = "exit" /\ IsTranscribe) =>
        /\ (winner = "cancel" /\ session = "Cancelled") =>
              (stdout = <<>> /\ stderr = <<>> /\ exit_code = 0)
        /\ \/ stdout = <<>>
           \/ /\ Len(stdout) = 1
              /\ stdout[1].kind = "result"
              /\ KeyTail = FullKeyPath
              /\ epc_result.ok
              /\ exit_code = 0

\* ---- C9 -----------------------------------------------------------------

StatusIsSuccess(status) == status >= 200 /\ status <= 299

\* C9 as stated: a non-success status gives the status error whatever the
\* body; a success status with a string "text" gives that text; a success
\* status without it gives a parse error; every failure, no response at all
\* included, comes back from the call as an error value; one request is made.
C9_Original ==
    Has("upload") =>
        /\ Count("upload") = 1
        /\ ~http_resp.arrived =>
              (epc_result # None /\ ~epc_result.ok)
        /\ (http_resp.arrived /\ ~StatusIsSuccess(http_resp.status)) =>
              epc_result = Err("http_status")
        /\ (http_resp.arrived /\ StatusIsSuccess(http_resp.status)
              /\ http_resp.readable /\ HasTextField(http_resp.body)) =>
              epc_result = Ok(TextField(http_resp.body))
        /\ (http_resp.arrived /\ StatusIsSuccess(http_resp.status)
              /\ http_resp.readable /\ ~HasTextField(http_resp.body)) =>
              epc_result = Err("json_parse")
        /\ (http_resp.arrived /\ StatusIsSuccess(http_resp.status)
              /\ ~http_resp.readable) =>
              (epc_result # None /\ ~epc_result.ok)

\* ---- C10 ----------------------------------------------------------------

\* C10 as stated: a session that is Stopping eventually becomes Finalized or
\* Failed, and get_audio_devices, once it waits for the enumeration
\* subprocess, eventually returns.
C10_Original ==
    /\ (session = "Stopping") ~> (session \in {"Finalized", "Failed"})
    /\ (pc = "gad_wait") ~> (pc = "main_devices")

\* ---- C8 -----------------------------------------------------------------

\* a line the claim counts: tagged, marked as audio, not an alias
ClaimKept(l) ==
    /\ StrContains(l, PatTag)
    /\ StrContains(l, PatAudio)
    /\ ~StrContains(l, PatAlias)

\* offsets of the closing delimiter that follow the opening delimiter
ClosingAfterOpening(l) ==
    { e \in Offsets(l, PatEnd) : e >= StrFind(l, PatStart) + 2 }

\* the line carries a quoted name: an opening delimiter and a closing one
\* after it
ClaimQuoted(l) ==
    /\ StrFind(l, PatStart) # -1
    /\ ClosingAfterOpening(l) # {}

\* the text between the first opening delimiter and the first closing
\* delimiter that follows it
ClaimName(l) ==
    LET e == CHOOSE e \in ClosingAfterOpening(l) :
                 \A f \in ClosingAfterOpening(l) : e <= f
    IN Slice(l, StrFind(l, PatStart) + 2, e)

\* the first opening delimiter lies after the first closing delimiter
ClaimReversed(l) ==
    /\ StrFind(l, PatStart) # -1
    /\ StrFind(l, PatEnd) # -1
    /\ StrFind(l, PatStart) > StrFind(l, PatEnd)

\* the first closing delimiter lies before the end of the first opening
\* delimiter: after it, or sharing its quote
ClaimReversedOrOverlapping(l) ==
    /\ StrFind(l, PatStart) # -1
    /\ StrFind(l, PatEnd) # -1
    /\ StrFind(l, PatEnd) < StrFind(l, PatStart) + 2

ClaimCounted(l) == ClaimKept(l) /\ ClaimQuoted(l)

\* the names of the counted lines, in the order of the lines
ClaimEntries(ls) ==
    LET counted == SelectSeq(ls, ClaimCounted)
    IN [i \in 1..Len(counted) |-> ClaimName(counted[i])]

ParseReturned == parse_out # NoDevices

\* C8 as stated: get_audio_devices returns one entry per tagged, non-alias
\* audio line with a quoted name, in input order, each the text between the
\* first space-quote and the first quote-space that follows it, and fails as
\* a whole exactly on a kept line whose first space-quote lies after its
\* first quote-space.
C8_Original ==
    ParseReturned =>
        LET ls == StrLines(parse_in) IN
        IF \E i \in 1..Len(ls) : ClaimKept(ls[i]) /\ ClaimReversed(ls[i])
        THEN ~parse_out.ok /\ parse_out.devices = <<>>
        ELSE parse_out.ok /\ parse_out.devices = ClaimEntries(ls)

\* What the parser does where C8 fails: the call fails, with no list,
\* exactly when some kept line has its first quote-space before the end of
\* its first space-quote - which includes a first quote-space that shares
\* its quote with the first space-quote (a name that starts with a space);
\* otherwise it returns one entry per counted line, in input order, each the
\* text between the first space-quote and the first quote-space after it.
C8_ParseDevices ==
    ParseReturned =>
        LET ls == StrLines(parse_in) IN
        IF \E i \in 1..Len(ls) :
              ClaimKept(ls[i]) /\ ClaimReversedOrOverlapping(ls[i])
        THEN ~parse_out.ok /\ parse_out.devices = <<>>
        ELSE /\ parse_out.ok
             /\ parse_out.devices = ClaimEntries(ls)
             /\ Len(parse_out.devices) = Len(SelectSeq(ls, ClaimCounted))

\* two devices returned in order from a text that also holds an alias line
C8_Witness ==
    /\ ParseReturned
    /\ parse_out.ok
    /\ parse_out.devices = <<NameMicA, NameMicB>>
    /\ StrLines(parse_in) = <<LineMicA, LineAlias, LineMicB>>

====
